---- MODULE Spec2Model ----
(***************************************************************************)
(* A model of git_branch_stack.py: the Stack class (a ring of branch names *)
(* with a cursor, persisted after every mutation), the reconciliation step *)
(* _fix_ring, and the user-facing commands built on them.                  *)
(*                                                                         *)
(* Branch names are the integers 1..NumBranches.  A Stack object and the   *)
(* record stored in the stack file for the repository root are both a      *)
(* record [ring, position]; ring is a sequence (Python list, 0-based in    *)
(* the source, 1-based here), position is a 0-based index or None.         *)
(***************************************************************************)
EXTENDS Integers, Sequences, FiniteSets, TLC

\* ---------------------------------------------------------------- bounds
NumBranches == 3      \* how many distinct branch names exist
MaxPos == 4           \* cap on the stored position (it can grow without limit)
MaxSel == 2           \* how many indices one interactive selection may hold
MaxLog == 3           \* how many calls the test-harness log keeps
MaxRuns == 4          \* how many processes the two racing users start

Branches == 1..NumBranches

\* Python's None, for a position and for a returned branch name.
None == -1

\* {'ring': [], 'position': None}
EmptyRecord == [ring |-> <<>>, position |-> None]

VARIABLES
    stack_file,   \* the record persisted in the stack file for this root
    head,         \* the branch git reports as checked out
    calls,        \* log of the operations the running process has made
    status,       \* "idle", or how the process that just ran ended
    stack,        \* the Stack object held by the Test harness
    refs,         \* the branch names git lists, local or remote-tracking
    store,        \* the whole stack file: a record for each root it knows
    procs,        \* the two processes that share the file of one user
    last_writer,  \* the running process that wrote the file last, if any
    runs          \* how many processes have been started on the shared file

vars == <<stack_file, head, calls, status, stack, refs,
          store, procs, last_writer, runs>>

\* What the race on the shared file is about
raceVars == <<store, procs, last_writer, runs>>

\* What the commands of one user in one root and the Test harness are about
cmdVars == <<stack_file, head, calls, status, stack, refs>>

\* ------------------------------------------------------ Python list helpers
\* x in seq
In(x, seq) == \E i \in 1..Len(seq) : seq[i] = x

\* seq.index(x): 0-based index of the first occurrence
list_index(seq, x) ==
    CHOOSE i \in 0..(Len(seq) - 1) :
        /\ seq[i + 1] = x
        /\ \A j \in 0..(i - 1) : seq[j + 1] # x

\* seq.insert(i, x) for i >= 0: an index past the end appends
list_insert(seq, i, x) ==
    LET k == IF i > Len(seq) THEN Len(seq) ELSE i
    IN  SubSeq(seq, 1, k) \o <<x>> \o SubSeq(seq, k + 1, Len(seq))

\* del seq[i] for 0 <= i < len(seq)
list_del(seq, i) == SubSeq(seq, 1, i) \o SubSeq(seq, i + 2, Len(seq))

\* seq.remove(x) for x in seq
list_remove(seq, x) == list_del(seq, list_index(seq, x))

\* seq[i] for -1 <= i < len(seq), len(seq) > 0: -1 is the last element
list_getitem(seq, i) == IF i = -1 THEN seq[Len(seq)] ELSE seq[i + 1]

\* ------------------------------------------------------------ Stack methods
Stack_is_empty(s) == Len(s.ring) = 0

\* Faulty variant of Stack_push: inserts without looking for the name in the ring.
Stack_push_no_lookup(s, branch) ==
    LET new_position == IF s.position # None THEN s.position + 1 ELSE 0
    IN  [ring |-> list_insert(s.ring, new_position, branch),
         position |-> new_position]

\* Faulty variant of Stack_push: a name already present is moved to the front.
Stack_push_moves(s, branch) ==
    IF In(branch, s.ring)
    THEN LET rest == list_remove(s.ring, branch)
         IN  [ring |-> <<branch>> \o rest, position |-> 0]
    ELSE LET new_position == IF s.position # None THEN s.position + 1 ELSE 0
         IN  [ring |-> list_insert(s.ring, new_position, branch),
              position |-> new_position]

Stack_push(s, branch) ==
    IF In(branch, s.ring)
    THEN [ring |-> s.ring, position |-> list_index(s.ring, branch)]
    ELSE LET new_position == IF s.position # None THEN s.position + 1 ELSE 0
         IN  [ring |-> list_insert(s.ring, new_position, branch),
              position |-> new_position]

\* Faulty variant of Stack_pop: an absent cursor is not an error.
Stack_pop_no_exit(s) ==
    IF s.position = None
    THEN [stack |-> s, out |-> None, raised |-> ""]
    ELSE IF s.position >= Len(s.ring)
    THEN [stack |-> s, out |-> None, raised |-> "IndexError"]
    ELSE LET ring == list_del(s.ring, s.position)
         IN  [stack |-> [ring |-> ring,
                         position |-> IF Len(ring) > 0
                                      THEN (s.position - 1) % Len(ring)
                                      ELSE None],
              out |-> s.ring[s.position + 1],
              raised |-> ""]

\* Faulty variant of Stack_pop: the cursor is not reset when the ring empties.
Stack_pop_keeps_cursor(s) ==
    IF s.position = None
    THEN [stack |-> s, out |-> None, raised |-> "SystemExit"]
    ELSE IF s.position >= Len(s.ring)
    THEN [stack |-> s, out |-> None, raised |-> "IndexError"]
    ELSE LET ring == list_del(s.ring, s.position)
         IN  [stack |-> [ring |-> ring,
                         position |-> IF Len(ring) > 0
                                      THEN (s.position - 1) % Len(ring)
                                      ELSE 0],
              out |-> s.ring[s.position + 1],
              raised |-> ""]

\* Faulty variant of Stack_pop: the cursor keeps its index after the removal.
Stack_pop_same_index(s) ==
    IF s.position = None
    THEN [stack |-> s, out |-> None, raised |-> "SystemExit"]
    ELSE IF s.position >= Len(s.ring)
    THEN [stack |-> s, out |-> None, raised |-> "IndexError"]
    ELSE LET ring == list_del(s.ring, s.position)
         IN  [stack |-> [ring |-> ring,
                         position |-> IF Len(ring) > 0
                                      THEN s.position % Len(ring)
                                      ELSE None],
              out |-> s.ring[s.position + 1],
              raised |-> ""]

\* The result of pop: the stack afterwards, the returned name, and what was
\* raised, "" when pop returned.
Stack_pop(s) ==
    IF s.position = None
    THEN [stack |-> s, out |-> None, raised |-> "SystemExit"]
    ELSE IF s.position >= Len(s.ring)
    THEN [stack |-> s, out |-> None, raised |-> "IndexError"]
    ELSE LET ring == list_del(s.ring, s.position)
         IN  [stack |-> [ring |-> ring,
                         position |-> IF Len(ring) > 0
                                      THEN (s.position - 1) % Len(ring)
                                      ELSE None],
              out |-> s.ring[s.position + 1],
              raised |-> ""]

\* A non-empty ring with position None would raise TypeError in the length
\* comparison; NoCursorlessRing below shows no Stack ever is in that state.
Stack_current(s) ==
    IF Len(s.ring) > 0 /\ s.position # None /\ Len(s.ring) > s.position
    THEN s.ring[s.position + 1]
    ELSE None

\* Faulty variant of Stack_back: steps back without wrapping.
Stack_back_no_wrap(s) ==
    IF Len(s.ring) = 0
    THEN [stack |-> s, out |-> None]
    ELSE LET new_index == IF s.position > 0 THEN s.position - 1 ELSE 0
         IN  [stack |-> [s EXCEPT !.position = new_index],
              out |-> s.ring[new_index + 1]]

Stack_back(s) ==
    IF Len(s.ring) = 0
    THEN [stack |-> s, out |-> None]
    ELSE LET new_index == (s.position - 1) % Len(s.ring)
         IN  [stack |-> [s EXCEPT !.position = new_index],
              out |-> s.ring[new_index + 1]]

\* Faulty variant of Stack_forward: stops at the last element.
Stack_forward_no_wrap(s) ==
    IF Len(s.ring) = 0
    THEN [stack |-> s, out |-> None]
    ELSE LET new_index == IF s.position + 1 < Len(s.ring)
                          THEN s.position + 1 ELSE s.position
         IN  [stack |-> [s EXCEPT !.position = new_index],
              out |-> s.ring[new_index + 1]]

Stack_forward(s) ==
    IF Len(s.ring) = 0
    THEN [stack |-> s, out |-> None]
    ELSE LET new_index == (s.position + 1) % Len(s.ring)
         IN  [stack |-> [s EXCEPT !.position = new_index],
              out |-> s.ring[new_index + 1]]

\* ------------------------------------------------------------- a process
\* A running process is a record: file is the stack file's record for the
\* root, head the checked-out branch, stack and branch the Stack object and
\* the branch name of the handler that is running, status "running" or the
\* exception that is propagating, calls the log of what it has done.
Process(file, h) ==
    [file |-> file, head |-> h, calls |-> <<>>, status |-> "running",
     stack |-> EmptyRecord, branch |-> None]

\* One entry of the log: the Stack before and after, the file before and
\* after, the argument, the returned value, what was raised, and whether
\* the call wrote the stack file.
Call(op, pre, arg, post, out, raised, file_pre, file_post, saved) ==
    [op |-> op, pre |-> pre, arg |-> arg, post |-> post, out |-> out,
     raised |-> raised, file_pre |-> file_pre, file_post |-> file_post,
     saved |-> saved]

\* Faulty variant of Stack_save: nothing is written.
Stack_save_nothing(p) == p

\* Stack.save: the whole dictionary is written to the stack file
Stack_save(p) == [p EXCEPT !.file = p.stack]

\* Stack.__init__: the Stack is the file's record for the root (a fresh
\* empty record when the file has none)
Stack_init(p) == [p EXCEPT !.stack = p.file]

\* stack.push(branch), with its save
do_push(p, branch) ==
    LET t == Stack_push(p.stack, branch)
    IN  [p EXCEPT !.stack = t, !.file = t,
                  !.calls = Append(@, Call("push", p.stack, branch, t, None,
                                           "", p.file, t, TRUE))]

\* stack.pop(), with its save; a raise leaves Stack and file alone
do_pop(p) ==
    LET r == Stack_pop(p.stack)
    IN  IF r.raised # ""
        THEN [p EXCEPT !.status = r.raised,
                       !.calls = Append(@, Call("pop", p.stack, None, p.stack,
                                                None, r.raised, p.file, p.file,
                                                FALSE))]
        ELSE [p EXCEPT !.stack = r.stack, !.file = r.stack,
                       !.calls = Append(@, Call("pop", p.stack, None, r.stack,
                                                r.out, "", p.file, r.stack,
                                                TRUE))]

\* stack.back(): nothing is saved when the ring is empty
do_back(p) ==
    LET r == Stack_back(p.stack)
        f == IF Len(p.stack.ring) = 0 THEN p.file ELSE r.stack
    IN  [p EXCEPT !.stack = r.stack, !.file = f,
                  !.calls = Append(@, Call("back", p.stack, None, r.stack,
                                           r.out, "", p.file, f,
                                           Len(p.stack.ring) # 0))]

\* Faulty variant of do_forward: saves on an empty ring too.
do_forward_always_saves(p) ==
    LET r == Stack_forward(p.stack)
    IN  [p EXCEPT !.stack = r.stack, !.file = r.stack,
                  !.calls = Append(@, Call("forward", p.stack, None, r.stack,
                                           r.out, "", p.file, r.stack, TRUE))]

\* stack.forward(): nothing is saved when the ring is empty
do_forward(p) ==
    LET r == Stack_forward(p.stack)
        f == IF Len(p.stack.ring) = 0 THEN p.file ELSE r.stack
    IN  [p EXCEPT !.stack = r.stack, !.file = f,
                  !.calls = Append(@, Call("forward", p.stack, None, r.stack,
                                           r.out, "", p.file, f,
                                           Len(p.stack.ring) # 0))]

\* ------------------------------------------------------------------- Git
\* Git._ref_exists runs "git branch --no-color" whatever name it is given
\* and tests the exit code; the command has just succeeded in
\* current_branch() when _fix_ring runs, so the answer is True for any name.
_ref_exists(branch) == TRUE

\* Git.ref_exists: asked for the name and for "origin/<name>"; neither
\* question looks at the name
ref_exists(branch) == _ref_exists(branch) \/ _ref_exists(<<"origin", branch>>)

\* git.checkout: on success the target is checked out, on failure nothing
\* changes; the exit code is the environment's choice
checkout(p, target, ok) == [p EXCEPT !.head = IF ok THEN target ELSE @]

\* ----------------------------------------------------------- reconciliation
_fix_ring(p, branch) ==
    LET expected_branch == Stack_current(p.stack)
        p1 == [p EXCEPT !.stack.ring = SelectSeq(@, ref_exists)]
        p2 == IF Stack_is_empty(p1.stack) \/ branch # expected_branch
              THEN do_push(p1, branch)
              ELSE p1
        p3 == Stack_save(p2)
    IN  [p3 EXCEPT !.calls = Append(@, Call("_fix_ring", p.stack, branch,
                                            p3.stack, None, "", p.file, p3.file,
                                            TRUE))]

\* _prepare: a new Stack from the file, reconciled with the current branch
_prepare(p) ==
    LET p1 == [Stack_init(p) EXCEPT !.branch = p.head]
    IN  _fix_ring(p1, p1.branch)

\* After a nested handler returns, the caller's own Stack and branch are
\* what they were; file, head, log and status are the nested handler's.
Return(q, p) == [q EXCEPT !.stack = p.stack, !.branch = p.branch]

\* print_ring(opts) with print_only: reconcile and display
print_ring_only(p) == Return(_prepare(p), p)

\* _cleanup(stack, code, branch, original_branch, opts, print_only); the
\* prompt that print_ring(opts, False) opens here is left unanswered
_cleanup(p, code, branch, original_branch) ==
    IF code # 0
    THEN IF ~In(branch, p.stack.ring)
         THEN [p EXCEPT !.status = "ValueError"]
         ELSE LET p1 == [p EXCEPT !.stack.ring = list_remove(@, branch)]
                  p2 == _fix_ring(p1, original_branch)
                  p3 == [p2 EXCEPT !.calls =
                            Append(@, Call("_cleanup", p.stack, branch,
                                           p2.stack, None, "", p.file, p2.file,
                                           TRUE))]
              IN  print_ring_only(p3)
    ELSE print_ring_only(p)

\* ---------------------------------------------------------------- commands
\* push(opts): new_head is the branch checked out after "git checkout args"
push(p0, new_head) ==
    LET p == _prepare(p0)
        p1 == [p EXCEPT !.head = new_head]
    IN  IF new_head # p.branch THEN do_push(p1, new_head) ELSE p1

\* pop(opts)
pop(p0, ok) ==
    LET p == _prepare(p0)
        p1 == do_pop(p)
        new_branch == Stack_current(p1.stack)
    IN  IF p1.status # "running" THEN p1
        ELSE IF new_branch # None THEN checkout(p1, new_branch, ok)
        ELSE p1

\* next_branch(opts)
next_branch(p0, ok) ==
    LET p == _prepare(p0)
        p1 == do_forward(p)
        next == p1.calls[Len(p1.calls)].out
    IN  IF next = None THEN p1
        ELSE _cleanup(checkout(p1, next, ok), IF ok THEN 0 ELSE 1,
                      next, p.branch)

\* prev_branch(opts)
prev_branch(p0, ok) ==
    LET p == _prepare(p0)
        p1 == do_back(p)
        previous == p1.calls[Len(p1.calls)].out
    IN  IF previous = None THEN p1
        ELSE _cleanup(checkout(p1, previous, ok), IF ok THEN 0 ELSE 1,
                      previous, p.branch)

\* The interactive selections: resp.idx holds the numbers typed (<<>> when
\* the wait timed out, the line was empty or did not match the pattern),
\* resp.action is "d" when the line began with the delete marker.
Selections ==
    [action : {"", "d"},
     idx : UNION {[1..n -> 0..(NumBranches + 1)] : n \in 0..MaxSel}]

\* A typed line is a sequence of tokens: a number, written as itself, the
\* delete marker "d" or "D", or a stretch of text that is neither.
D == -2
X == -3

\* The line that types selection sel and nothing else
Typed(sel) == (IF sel.action = "d" THEN <<D>> ELSE <<>>) \o sel.idx

\* The lines the user types: every selection typed cleanly, the same with
\* text after at most one number, and text before one number.  <<>> is the
\* empty line or no line before the timeout.
Lines ==
    {Typed(sel) : sel \in Selections}
        \cup {Typed(sel) \o <<X>> : sel \in {t \in Selections : Len(t.idx) <= 1}}
        \cup {<<X, n>> : n \in 0..(NumBranches + 1)}

\* re.match(r"(?i)(d?)( *\d+(?: +\d+)*)", resp): an optional marker, then the
\* longest run of numbers; what follows the run is not looked at.  Without a
\* number after the optional marker there is no match, m is None and
\* m.group raises AttributeError, which the handler swallows like any
\* Exception: the outcome is that of a selection of nothing.
parse(line) ==
    LET marked == Len(line) > 0 /\ line[1] = D
        rest == IF marked THEN Tail(line) ELSE line
        n == CHOOSE k \in 0..Len(rest) :
                 /\ \A j \in 1..k : rest[j] >= 0
                 /\ k = Len(rest) \/ rest[k + 1] < 0
    IN  IF n = 0
        THEN [action |-> "", idx |-> <<>>]
        ELSE [action |-> IF marked THEN "d" ELSE "", idx |-> SubSeq(rest, 1, n)]

\* The line is a selection typed cleanly, of numbers the display shows
Conforms(line, ring) ==
    /\ Len(line) > 0
    /\ Typed(parse(line)) = line
    /\ \A k \in 1..Len(line) : line[k] = D \/ line[k] \in 1..Len(ring)

\* stack.ring.remove(branch_i); stack.save() of the delete loop
delete_entry(p, branch_i) ==
    LET t == [p.stack EXCEPT !.ring = list_remove(@, branch_i)]
    IN  [p EXCEPT !.stack = t, !.file = t,
                  !.calls = Append(@, Call("remove", p.stack, branch_i, t,
                                           None, "", p.file, t, TRUE))]

\* The delete loop of print_ring over branches[k..]: the entry the user is
\* on is popped by the pop command (a new Stack read from the file), any
\* other is removed from this handler's Stack; oks[k] is the outcome of the
\* checkout the k-th pop makes.  A raise ends the loop.
RECURSIVE delete_loop(_, _, _, _)
delete_loop(p, branches, oks, k) ==
    IF k > Len(branches) \/ p.status # "running"
    THEN p
    ELSE LET branch_i == branches[k]
         IN  IF p.branch = branch_i
             THEN delete_loop(Return(pop(p, oks[k]), p), branches, oks, k + 1)
             ELSE IF ~In(branch_i, p.stack.ring)
             THEN [p EXCEPT !.status = "ValueError"]
             ELSE delete_loop(delete_entry(p, branch_i), branches, oks, k + 1)

\* except Exception: pass -- SystemExit is not an Exception and goes through
swallow(p) ==
    IF p.status \in {"IndexError", "ValueError", "AttributeError"}
    THEN [p EXCEPT !.status = "running"]
    ELSE p

\* The log notes the entries a delete line names, in the order typed
selected(p, branches) ==
    [p EXCEPT !.calls = @ \o [k \in 1..Len(branches) |->
                                 Call("delete_selected", p.stack, branches[k],
                                      p.stack, None, "", p.file, p.file,
                                      FALSE)]]

\* print_ring(opts, False) from the prompt on: p is the process after
\* _prepare, resp the selection matched in the line
print_ring_selected(p, resp, oks) ==
    LET ring == p.stack.ring
    IN  IF resp.idx = <<>>
        THEN p
        ELSE IF \E k \in 1..Len(resp.idx) : resp.idx[k] - 1 >= Len(ring)
        THEN p
        ELSE LET branches == [k \in 1..Len(resp.idx) |->
                                 list_getitem(ring, resp.idx[k] - 1)]
                 branch_i == branches[1]
             IN  IF resp.action = "d"
                 THEN swallow(delete_loop(selected(p, branches), branches,
                                          oks, 1))
                 ELSE IF p.branch = branch_i
                 THEN p
                 ELSE LET p1 == checkout(p, branch_i, oks[1])
                          p2 == IF ~oks[1]
                                THEN _cleanup(p1, 1, branch_i, p.branch)
                                ELSE p1
                          new_branch == p2.head
                      IN  swallow(IF p2.status = "running"
                                     /\ new_branch # p.branch
                                  THEN do_push(p2, new_branch)
                                  ELSE p2)

\* print_ring(opts, False): the interactive ring command.  Its last log
\* entry tells what was typed ("input" for a line that conforms, "bad_input"
\* for one that does not, "no_input" for none), the Stack and the file as
\* displayed and at the end, and the branch checked out then (arg) and at
\* the end (out).
print_ring(p0, line, oks) ==
    LET p == _prepare(p0)
        q == print_ring_selected(p, parse(line), oks)
        op == IF line = <<>> THEN "no_input"
              ELSE IF Conforms(line, p.stack.ring) THEN "input"
              ELSE "bad_input"
    IN  [q EXCEPT !.calls = Append(@, Call(op, p.stack, p.head, q.stack,
                                           q.head, "", p.file, q.file,
                                           q.file # p.file))]

\* remove_missing_branches(opts): branches is what git.branches() lists
remove_missing_branches(p0, branches) ==
    LET p == _prepare(p0)
        p1 == [p EXCEPT !.stack.ring = SelectSeq(@, LAMBDA br : br \in branches)]
        p2 == _fix_ring(p1, p.branch)
    IN  print_ring_only(p2)

\* ------------------------------------------------- the file as a whole
\* The stack file holds one dictionary, root -> record, for all the
\* repositories of the user.
Roots == {"/repo1", "/repo2"}

Procs == {"A", "B"}

\* The empty dictionary: the file is missing, empty or unreadable
NoDict == [r \in {} |-> EmptyRecord]

NotRunning == [pc |-> "start", root |-> "", arg |-> None,
               loaded |-> NoDict, stack_dict |-> NoDict]

\* Stack.__init__: the whole file is read; a root the file does not know
\* gets a fresh record in the dictionary in memory
load(file, root) ==
    [r \in DOMAIN file \cup {root} |->
        IF r \in DOMAIN file THEN file[r] ELSE EmptyRecord]

\* Faulty variant of written: only the record of the Stack's own root is
\* replaced in the file.
written_own_record(file, stack_dict, root) ==
    [r \in DOMAIN file \cup {root} |->
        IF r = root THEN stack_dict[r] ELSE file[r]]

\* Stack.save: what the file holds afterwards.  The file is opened for
\* writing and the dictionary in memory is dumped; what the file held is
\* not read again.
written(file, stack_dict, root) == stack_dict

\* ----------------------------------------------------------- the program
Init ==
    /\ stack_file = EmptyRecord
    /\ head \in Branches
    /\ calls = <<>>
    /\ status = "idle"
    /\ stack = EmptyRecord
    /\ refs = Branches
    /\ store = NoDict
    /\ procs = [i \in Procs |-> NotRunning]
    /\ last_writer = "none"
    /\ runs = 0

\* A command has run to its end as process q
Ran(q) ==
    /\ q.file.position <= MaxPos
    /\ stack_file' = q.file
    /\ head' = q.head
    /\ calls' = q.calls
    /\ status' = IF q.status = "running" THEN "done" ELSE q.status
    /\ UNCHANGED <<stack, refs>>
    /\ UNCHANGED raceVars

CmdPush(new_head) ==
    /\ status = "idle"
    /\ Ran(push(Process(stack_file, head), new_head))

CmdPop(ok) ==
    /\ status = "idle"
    /\ Ran(pop(Process(stack_file, head), ok))

CmdNext(ok) ==
    /\ status = "idle"
    /\ Ran(next_branch(Process(stack_file, head), ok))

CmdPrev(ok) ==
    /\ status = "idle"
    /\ Ran(prev_branch(Process(stack_file, head), ok))

\* The k-th number of the selection can lead to a checkout: in delete mode
\* when it names the branch the user is on (pop checks out the new current
\* entry), in jump mode when it is the first and names another branch.
\* ring is the ring as displayed.
MayCheckout(resp, ring, k) ==
    /\ k <= Len(resp.idx)
    /\ \A j \in 1..Len(resp.idx) : resp.idx[j] - 1 < Len(ring)
    /\ IF resp.action = "d"
       THEN list_getitem(ring, resp.idx[k] - 1) = head
       ELSE k = 1 /\ list_getitem(ring, resp.idx[1] - 1) # head

\* The outcomes of the checkouts of one command: oks[k] is the outcome of
\* the checkout the k-th number leads to, TRUE where there is none to fail
Outcomes(resp, ring) ==
    {[k \in 1..MaxSel |-> k \notin failed] :
        failed \in SUBSET {k \in 1..MaxSel : MayCheckout(resp, ring, k)}}

CmdRing ==
    /\ status = "idle"
    /\ LET ring == _prepare(Process(stack_file, head)).stack.ring
       IN  \E line \in Lines :
               \E oks \in Outcomes(parse(line), ring) :
                   Ran(print_ring(Process(stack_file, head), line, oks))

CmdClean(branches) ==
    /\ status = "idle"
    /\ Ran(remove_missing_branches(Process(stack_file, head), branches))

\* The process is gone; its Stack objects and its log go with it
Exit ==
    /\ status # "idle"
    /\ status' = "idle"
    /\ calls' = <<>>
    /\ UNCHANGED <<stack_file, head, stack, refs>>
    /\ UNCHANGED raceVars

\* The user checks a branch out with git itself, between two commands
GitCheckout(b) ==
    /\ status = "idle"
    /\ b \in refs
    /\ b # head
    /\ head' = b
    /\ UNCHANGED <<stack_file, calls, status, stack, refs>>
    /\ UNCHANGED raceVars

Next ==
    \/ \E new_head \in Branches : CmdPush(new_head)
    \/ \E ok \in BOOLEAN : CmdPop(ok)
    \/ \E ok \in BOOLEAN : CmdNext(ok)
    \/ \E ok \in BOOLEAN : CmdPrev(ok)
    \/ CmdRing
    \/ \E branches \in SUBSET Branches : CmdClean(branches)
    \/ \E b \in Branches : GitCheckout(b)
    \/ Exit

Spec == Init /\ [][Next]_vars

\* ------------------------------------------- branches come and go in git
\* Spec leaves refs alone and takes what git lists and whether a checkout
\* succeeds as inputs; SpecRefs follows the branches themselves.
\* "git branch -D b" between two commands, for a branch not checked out
GitBranchDelete(b) ==
    /\ status = "idle"
    /\ b \in refs
    /\ b # head
    /\ refs' = refs \ {b}
    /\ UNCHANGED <<stack_file, head, calls, status, stack>>
    /\ UNCHANGED raceVars

\* "git branch b" between two commands
GitBranchCreate(b) ==
    /\ status = "idle"
    /\ b \notin refs
    /\ refs' = refs \cup {b}
    /\ UNCHANGED <<stack_file, head, calls, status, stack>>
    /\ UNCHANGED raceVars

NextRefs ==
    \/ \E new_head \in refs : CmdPush(new_head)
    \/ CmdClean(refs)
    \/ \E b \in Branches : GitCheckout(b)
    \/ \E b \in Branches : GitBranchDelete(b)
    \/ \E b \in Branches : GitBranchCreate(b)
    \/ Exit

SpecRefs == Init /\ [][NextRefs]_vars

\* ------------------------------------------- two processes, one file
\* A process is started in root: Stack.__init__ reads the file
RaceLoad(i, root) ==
    /\ procs[i].pc = "start"
    /\ runs < MaxRuns
    /\ runs' = runs + 1
    /\ procs' = [procs EXCEPT ![i] =
                    [pc |-> "loaded", root |-> root, arg |-> None,
                     loaded |-> load(store, root),
                     stack_dict |-> load(store, root)]]
    /\ UNCHANGED <<store, last_writer>>
    /\ UNCHANGED cmdVars

\* Stack.push up to its save(): the record of the root changes in memory
RaceMutate(i, branch) ==
    /\ procs[i].pc = "loaded"
    /\ procs' = [procs EXCEPT ![i].pc = "mutated",
                              ![i].arg = branch,
                              ![i].stack_dict[procs[i].root] =
                                  Stack_push(@, branch)]
    /\ UNCHANGED <<store, last_writer, runs>>
    /\ UNCHANGED cmdVars

\* The save() that ends Stack.push; nothing locks the file
RaceWrite(i) ==
    /\ procs[i].pc = "mutated"
    /\ store' = written(store, procs[i].stack_dict, procs[i].root)
    /\ procs' = [procs EXCEPT ![i].pc = "written"]
    /\ last_writer' = i
    /\ UNCHANGED runs
    /\ UNCHANGED cmdVars

\* The process ends
RaceExit(i) ==
    /\ procs[i].pc = "written"
    /\ procs' = [procs EXCEPT ![i] = NotRunning]
    /\ last_writer' = IF last_writer = i THEN "none" ELSE last_writer
    /\ UNCHANGED <<store, runs>>
    /\ UNCHANGED cmdVars

NextRace ==
    \/ \E i \in Procs, root \in Roots : RaceLoad(i, root)
    \/ \E i \in Procs, branch \in Branches : RaceMutate(i, branch)
    \/ \E i \in Procs : RaceWrite(i)
    \/ \E i \in Procs : RaceExit(i)

InitRace == Init /\ head = 1

SpecRace == InitRace /\ [][NextRace]_vars

\* ------------------------------------------------------ the Test harness
\* Test drives one Stack on a file of its own, call after call; the log
\* keeps the last MaxLog calls.
Logged(q) ==
    LET c == calls \o q.calls
    IN  IF Len(c) > MaxLog THEN SubSeq(c, Len(c) - MaxLog + 1, Len(c)) ELSE c

Called(q) ==
    /\ stack' = q.stack
    /\ stack_file' = q.file
    /\ calls' = Logged(q)
    /\ status' = IF q.status = "running" THEN "done" ELSE q.status
    /\ UNCHANGED <<head, refs>>
    /\ UNCHANGED raceVars

TestProcess == [Process(stack_file, head) EXCEPT !.stack = stack]

TestPush(branch) == Called(do_push(TestProcess, branch))

TestPop == Called(do_pop(TestProcess))

TestBack == Called(do_back(TestProcess))

TestForward == Called(do_forward(TestProcess))

NextStack ==
    \/ \E branch \in Branches : TestPush(branch)
    \/ TestPop
    \/ TestBack
    \/ TestForward

\* Test never asks git for the branch; one value of head is enough
InitStack == Init /\ head = 1

SpecStack == InitStack /\ [][NextStack]_vars

\* ------------------------------------------------------------ properties
\* The logged calls of one operation
CallsOf(op) == {i \in 1..Len(calls) : calls[i].op = op}

\* Every Stack state the log or the file shows
Stacks ==
    {stack_file, stack} \cup {calls[i].pre : i \in 1..Len(calls)}
                        \cup {calls[i].post : i \in 1..Len(calls)}

\* The Stack states operations have left behind
StacksAfter ==
    {stack_file, stack} \cup {calls[i].post : i \in 1..Len(calls)}

ValidPosition(s) == s.position # None => 0 <= s.position /\ s.position < Len(s.ring)

\* C1: every completed reconciliation (_fix_ring) leaves a non-empty ring
\* that holds the branch it was given, with current() equal to that branch.
C1_FixRingCursorOnBranch ==
    \A i \in CallsOf("_fix_ring") :
        /\ Len(calls[i].post.ring) > 0
        /\ In(calls[i].arg, calls[i].post.ring)
        /\ Stack_current(calls[i].post) = calls[i].arg

\* C2: after any operation a position that is not None is an index of the
\* ring, 0 <= position < len(ring).
C2_PositionInRange == \A s \in StacksAfter : ValidPosition(s)

\* C3: in every state the operations reach, position is None exactly when
\* the ring is empty.
C3_NoneIffEmpty == \A s \in StacksAfter : (s.position = None) <=> (Len(s.ring) = 0)

\* A ring was emptied by a pop and the cursor went back to None.
C3_Witness ==
    /\ stack_file = EmptyRecord
    /\ \E i \in CallsOf("pop") : calls[i].pre.position = 0 /\ calls[i].raised = ""

\* Stack_current and the index arithmetic never meet position None on a
\* non-empty ring (Python would raise TypeError there).
NoCursorlessRing == \A s \in Stacks : Len(s.ring) > 0 => s.position # None

\* C4: the ring never holds a name twice.
C4_NoDuplicates ==
    \A s \in Stacks : \A i, j \in 1..Len(s.ring) : s.ring[i] = s.ring[j] => i = j

\* A name already in a ring of two or more was pushed again.
C4_Witness ==
    \E i \in CallsOf("push") :
        /\ In(calls[i].arg, calls[i].pre.ring)
        /\ Len(calls[i].post.ring) >= 2

\* C5: after push(name) of a name not in the ring, current() is name and
\* the ring is one longer.
C5_PushNewIsCurrent ==
    \A i \in CallsOf("push") :
        ~In(calls[i].arg, calls[i].pre.ring) =>
            /\ Stack_current(calls[i].post) = calls[i].arg
            /\ Len(calls[i].post.ring) = Len(calls[i].pre.ring) + 1

\* C6: push(name) of a name not in the ring puts it at index position + 1
\* (0 when position is None), sets position to that index, and keeps the
\* other elements in their order.
C6_PushNewAfterCursor ==
    \A i \in CallsOf("push") :
        LET c == calls[i]
            at == IF c.pre.position = None THEN 0 ELSE c.pre.position + 1
        IN  ~In(c.arg, c.pre.ring) =>
                /\ c.post.position = at
                /\ at < Len(c.post.ring)
                /\ c.post.ring[at + 1] = c.arg
                /\ list_del(c.post.ring, at) = c.pre.ring

\* C7: push(name) of a name already in the ring leaves the ring as it is
\* and sets position to the index the name has.
C7_PushPresentMovesCursorOnly ==
    \A i \in CallsOf("push") :
        LET c == calls[i]
        IN  In(c.arg, c.pre.ring) =>
                /\ c.post.ring = c.pre.ring
                /\ 0 <= c.post.position /\ c.post.position < Len(c.pre.ring)
                /\ c.pre.ring[c.post.position + 1] = c.arg

\* The cursor was elsewhere and a push of a present name moved it.
C7_Witness ==
    \E i \in CallsOf("push") :
        /\ In(calls[i].arg, calls[i].pre.ring)
        /\ Len(calls[i].pre.ring) >= 2
        /\ calls[i].post.position # calls[i].pre.position

\* C8: pop() on a non-empty ring with cursor p returns ring[p], removes that
\* element only, and leaves current() on the element back() would have
\* reached; popping the only element leaves the empty ring, position None.
C8_PopReturnsCurrentStepsBack ==
    \A i \in CallsOf("pop") :
        LET c == calls[i]
            n == Len(c.pre.ring)
            p == c.pre.position
        IN  n > 0 =>
                /\ c.raised = ""
                /\ c.out = c.pre.ring[p + 1]
                /\ c.post.ring = list_del(c.pre.ring, p)
                /\ IF n = 1
                   THEN c.post = EmptyRecord /\ Stack_current(c.post) = None
                   ELSE Stack_current(c.post) = Stack_back(c.pre).out

\* C9: pop() with position None raises the exit with status 1 and leaves
\* ring, position and the stack file as they were.
C9_PopEmptyExits ==
    \A i \in CallsOf("pop") :
        LET c == calls[i]
        IN  c.pre.position = None =>
                /\ c.raised = "SystemExit"
                /\ c.post = c.pre
                /\ c.file_post = c.file_pre

\* push(x); pop(); pop(): the second pop found no cursor.
C9_Witness ==
    /\ Len(calls) = 3
    /\ calls[1].op = "push" /\ calls[1].pre = EmptyRecord
    /\ calls[2].op = "pop" /\ calls[2].out = calls[1].arg
    /\ calls[3].op = "pop" /\ calls[3].raised = "SystemExit"
    /\ status = "SystemExit"
    /\ stack = EmptyRecord

\* C10: on a ring that is not empty, back() then forward(), and forward()
\* then back(), leave position and ring as they were.
C10_BackForwardInverse ==
    \A i \in 1..(Len(calls) - 1) :
        LET c == calls[i]
            d == calls[i + 1]
        IN  (/\ Len(c.pre.ring) >= 1
             /\ \/ c.op = "back" /\ d.op = "forward"
                \/ c.op = "forward" /\ d.op = "back")
            => d.post = c.pre

\* back() wrapped from the first element to the last and forward() undid it.
C10_Witness ==
    \E i \in 1..(Len(calls) - 1) :
        /\ calls[i].op = "back" /\ calls[i + 1].op = "forward"
        /\ Len(calls[i].pre.ring) >= 2
        /\ calls[i].pre.position = 0
        /\ calls[i + 1].post.position = 0

\* The calls i..i+n-1 of the log are n calls of op, one after the other
Run(op, i, n) ==
    /\ n >= 1 /\ i >= 1 /\ i + n - 1 <= Len(calls)
    /\ \A j \in i..(i + n - 1) : calls[j].op = op

\* C11: on a ring of n >= 1 elements, n forward() calls in a row raise
\* nothing, return every element once, in ring order from the one after the
\* cursor, and end on the starting record; n back() calls do the same in
\* the opposite order.
C11_FullCycleReturns ==
    \A i \in 1..Len(calls) :
        LET c == calls[i]
            n == Len(c.pre.ring)
            p == c.pre.position
        IN  /\ Run("forward", i, n) =>
                /\ \A j \in 1..n :
                       /\ calls[i + j - 1].raised = ""
                       /\ calls[i + j - 1].out = c.pre.ring[((p + j) % n) + 1]
                /\ {calls[i + j - 1].out : j \in 1..n}
                       = {c.pre.ring[k] : k \in 1..n}
                /\ calls[i + n - 1].post = c.pre
            /\ Run("back", i, n) =>
                /\ \A j \in 1..n :
                       /\ calls[i + j - 1].raised = ""
                       /\ calls[i + j - 1].out = c.pre.ring[((p - j) % n) + 1]
                /\ {calls[i + j - 1].out : j \in 1..n}
                       = {c.pre.ring[k] : k \in 1..n}
                /\ calls[i + n - 1].post = c.pre

\* forward() went once around a ring of three from its middle element.
C11_Witness ==
    /\ Run("forward", 1, 3)
    /\ Len(calls[1].pre.ring) = 3
    /\ calls[1].pre.position = 1
    /\ calls[3].post.position = 1

\* C12: forward() and back() on an empty ring return None, change neither
\* ring nor position and do not write the stack file.
C12_MoveOnEmptyIsNoOp ==
    \A i \in CallsOf("forward") \cup CallsOf("back") :
        LET c == calls[i]
        IN  Len(c.pre.ring) = 0 =>
                /\ c.out = None
                /\ c.raised = ""
                /\ c.post = c.pre
                /\ c.post.position = None
                /\ ~c.saved
                /\ c.file_post = c.file_pre

\* Both forward() and back() were called on the empty ring.
C12_Witness ==
    /\ \E i \in CallsOf("forward") : calls[i].pre = EmptyRecord
    /\ \E i \in CallsOf("back") : calls[i].pre = EmptyRecord
    /\ stack = EmptyRecord

\* C20: on a valid stack, empty or not, push(name) of a name that is not in
\* the ring followed at once by pop() returns that name and leaves the ring,
\* its order and the position as they were before the push.
C20_PushPopRestores ==
    \A i \in CallsOf("push") :
        LET c == calls[i]
        IN  ( /\ i < Len(calls)
              /\ calls[i + 1].op = "pop"
              /\ ~In(c.arg, c.pre.ring)
              /\ ValidPosition(c.pre)
              /\ (c.pre.position = None <=> Len(c.pre.ring) = 0) ) =>
                /\ calls[i + 1].raised = ""
                /\ calls[i + 1].out = c.arg
                /\ calls[i + 1].post = c.pre

\* A new name was pushed after the first of two elements and popped again.
C20_Witness ==
    \E i \in CallsOf("push") :
        /\ i < Len(calls)
        /\ calls[i + 1].op = "pop"
        /\ Len(calls[i].pre.ring) = 2
        /\ calls[i].pre.position = 0
        /\ ~In(calls[i].arg, calls[i].pre.ring)
        /\ calls[i + 1].post = calls[i].pre

\* C13: reconciliation (_fix_ring) drops the names git no longer lists, so
\* every entry of the ring it leaves exists, and a ring that held nothing
\* but such names is left holding the current branch alone.
C13_FixRingDropsMissing ==
    \A i \in CallsOf("_fix_ring") :
        LET c == calls[i]
        IN  /\ \A k \in 1..Len(c.post.ring) : c.post.ring[k] \in refs
            /\ ( /\ Len(c.pre.ring) > 0
                 /\ \A k \in 1..Len(c.pre.ring) : c.pre.ring[k] \notin refs )
               => c.post.ring = <<c.arg>>

\* C14: when _cleanup has handled a failed checkout, the branch that failed
\* is no longer in the ring, the position is an index of the ring, and
\* current() is the branch that was checked out before, for rings of every
\* size. The _fix_ring call logged just before the _cleanup entry is the
\* one _cleanup made, and its argument is that original branch.
C14_CleanupRemovesFailed ==
    \A i \in CallsOf("_cleanup") :
        LET c == calls[i]
            original_branch == calls[i - 1].arg
        IN  /\ ~In(c.arg, c.post.ring)
            /\ c.post.position # None
            /\ ValidPosition(c.post)
            /\ Stack_current(c.post) = original_branch
            /\ c.file_post = c.post

\* C15: a line at the prompt of the ring command that is not an optional
\* delete marker followed by numbers and nothing else, or that names a
\* number outside 1..len(ring), changes nothing: Stack, stack file and the
\* branch checked out are as they were when the ring was displayed.
C15_BadInputIsNoOp ==
    \A i \in CallsOf("bad_input") :
        LET c == calls[i]
        IN  /\ c.post = c.pre
            /\ c.file_post = c.file_pre
            /\ c.out = c.arg

\* C16: a command ends normally, except that pop ends with SystemExit when
\* the Stack has no current element (position None); no other command and
\* no other state makes a command end on an exception.
C16_OnlyPopOnNoneExits ==
    status \notin {"idle", "done"} =>
        /\ status = "SystemExit"
        /\ Len(calls) > 0
        /\ calls[Len(calls)].op = "pop"
        /\ calls[Len(calls)].pre.position = None

\* The operations that change ring or position
Mutating(c) ==
    \/ c.op \in {"push", "_fix_ring", "remove"}
    \/ c.op = "pop" /\ c.raised = ""
    \/ c.op \in {"back", "forward"} /\ Len(c.pre.ring) > 0

\* C17: when push, pop on a non-empty ring, back or forward on a non-empty
\* ring, reconciliation or the direct delete of the ring command returns,
\* it has written the stack file, and the record in the file is the record
\* of the Stack in memory.
C17_MutationsAreSaved ==
    \A i \in 1..Len(calls) :
        Mutating(calls[i]) => calls[i].saved /\ calls[i].file_post = calls[i].post

\* A reconciliation that pushed nothing wrote a Stack that differed from the
\* file.
C17_Witness ==
    \E i \in CallsOf("_fix_ring") :
        /\ calls[i].file_pre # calls[i].pre
        /\ calls[i].post = calls[i].pre
        /\ calls[i].file_post = calls[i].post

\* C19: when a ring command given a well-formed delete line has ended, none
\* of the entries the line named is in the ring of the stack file, whether the
\* entry the user is on comes before or after the others in the line.
C19_DeletedEntriesAreGone ==
    (status # "idle" /\ CallsOf("input") # {}) =>
        \A i \in CallsOf("delete_selected") : ~In(calls[i].arg, stack_file.ring)

\* C18: when processes have read, changed and written the stack file with
\* nothing to serialise them, the file is the dictionary in memory of the
\* process that wrote last: the record of its own root is the one it read
\* with its own change, and the record of every other root is the one it
\* read, so what another process wrote in between is gone, for the same
\* root and for a different one.
C18_LastWriterWins ==
    last_writer # "none" =>
        LET L == procs[last_writer]
        IN  /\ store = L.stack_dict
            /\ DOMAIN store = DOMAIN L.loaded
            /\ \A r \in DOMAIN store :
                   store[r] = IF r = L.root
                              THEN Stack_push(L.loaded[r], L.arg)
                              ELSE L.loaded[r]

\* Two processes in different roots read the same record for the root of
\* the first; both pushed and wrote, the first one first, and the file
\* holds for that root the record they read: the first push is gone.
C18_Witness ==
    /\ last_writer # "none"
    /\ \E i \in Procs \ {last_writer} :
           LET F == procs[i]
               L == procs[last_writer]
           IN  /\ F.pc = "written"
               /\ F.root # L.root
               /\ F.root \in DOMAIN L.loaded
               /\ L.loaded[F.root] = F.loaded[F.root]
               /\ F.stack_dict[F.root] # F.loaded[F.root]
               /\ store[F.root] = F.loaded[F.root]

====
